---- MODULE Spec2Model ----
(***************************************************************************)
(* Taskmaster: the notification scheduler (services/NotificationService),  *)
(* the task mutation thunks and reducers (store/tasksSlice) and the        *)
(* notification-delivery service they drive, as a state machine, together   *)
(* with the score functions and the memoised selectors of utils/smartSort. *)
(*                                                                         *)
(* JavaScript runs one event at a time: the code between two awaits is one *)
(* atomic step, and a promise that settles runs its continuations          *)
(* (Promise.all, .catch, the async function's return) in the same step.    *)
(* Calls to the delivery service and to the repository settle in any order *)
(* and may fail.                                                           *)
(***************************************************************************)
EXTENDS Integers, Sequences, FiniteSets, Bags, TLC

VARIABLES
    now,        \* Date.now()
    triggers,   \* the delivery service: the outstanding trigger notifications
    calls,      \* scheduleTaskNotifications / cancelTaskNotifications calls in progress
    last,       \* the step that was just taken, as the program saw it
    docs,       \* the repository: the task documents of users/{uid}/tasks
    store,      \* the tasks slice of the Redux store: tasks, loading, error
    thunks,     \* dispatched thunks awaiting their repository write
    assigned,   \* the document ids addDoc has handed out
    collection, \* state.tasks.tasks as the selectors read it: the array and its identity
    memo,       \* the caches of the createSelector selectors of utils/smartSort
    detail      \* TaskDetailScreen: the task it shows and the time health it rendered

schedVars == <<now, triggers, calls, last>>
storeVars == <<docs, store, thunks, assigned>>
viewVars == <<collection, memo, detail>>
vars == <<now, triggers, calls, last, docs, store, thunks, assigned, collection, memo,
         detail>>

----------------------------------------------------------------------------
(* Bounds *)

MaxHour == 2       \* the clock runs over 0 .. MaxHour hours
MaxCalls == 2      \* scheduler calls in progress at one time, for one task
MaxCallsTwoTasks == 1  \* scheduler calls in progress at one time, for two tasks
MaxThunks == 1     \* thunks awaiting their repository write at one time
MaxEdits == 2      \* the same, when only addTask and updateTask are dispatched
MaxEditCalls == 3  \* scheduler calls in progress at one time, made by addTask and updateTask
MaxTasks == 2      \* tasks in the collection given to the selectors
MaxRefs == 2       \* times a reducer replaces the collection
MaxInFlight == 2   \* thunks of any kind awaiting their repository write at one time
MaxStoreCalls == 4 \* scheduler calls made by the thunks of any kind
MaxHistory == 4    \* tasks in the collection given to computeConsistencyScore

----------------------------------------------------------------------------
(* Constants of services/NotificationService *)

ONE_HOUR_MS == 60 * 60 * 1000

REMINDER_SUFFIX == "-reminder"

DEADLINE_SUFFIX == "-deadline"

REMINDER_TITLE == "Task Due Soon"

DEADLINE_TITLE == "Task Deadline Reached"

\* completedAt undefined, a request without a timestamp
NoValue == 0 - 1

\* completedAt: null, as toggleTaskStatus writes it to clear the field
Null == 0 - 2

Instants == {h * ONE_HOUR_MS : h \in 0..MaxHour}

\* Task ids are arbitrary strings; one of them ends like a trigger id.
TaskIds == {"t1", "t1-reminder"}

Titles == {REMINDER_TITLE, DEADLINE_TITLE}

----------------------------------------------------------------------------
(* Tasks (types.ts), reduced to the fields the scheduler and the thunks read *)

\* A subtask is reduced to isCompleted; a task is created with one open subtask.
NoSubtaskDone == <<FALSE>>

Task(id, deadline, status, completedAt) ==
    [id |-> id, deadline |-> deadline, status |-> status, completedAt |-> completedAt,
     subtasks |-> NoSubtaskDone]

NewTasks(ids) == {Task(id, d, "PENDING", NoValue) : id \in ids, d \in Instants}

----------------------------------------------------------------------------
(* The delivery service: a store of trigger notifications keyed by id *)

Trigger(req) ==
    [id |-> req.id, title |-> req.title, task |-> req.task,
     timestamp |-> req.timestamp, allowWhileIdle |-> req.allowWhileIdle]

\* A trigger is outstanding until its fire time is reached.
Outstanding(trigs, t) == {x \in trigs : x.timestamp > t}

\* createTriggerNotification: a notification with the id of an existing one replaces it.
createTriggerNotification(trigs, req) ==
    {x \in trigs : x.id # req.id} \cup {Trigger(req)}

\* cancelTriggerNotification: removes the trigger of that id, if any.
cancelTriggerNotification(trigs, id) == {x \in trigs : x.id # id}

\* requestPermission: no settings, or DENIED (0) / AUTHORIZED (1) / PROVISIONAL (2).
PermissionSettings ==
    {[present |-> FALSE, authorizationStatus |-> 0]}
        \cup {[present |-> TRUE, authorizationStatus |-> s] : s \in 0..2}

----------------------------------------------------------------------------
(* scheduleTaskNotifications *)

\* Mutant: DENIED (0) taken for a grant.
NotGrantedBelowZero(settings) == ~settings.present \/ settings.authorizationStatus < 0

NotGranted(settings) == ~settings.present \/ settings.authorizationStatus < 1

ReminderId(task) == task.id \o REMINDER_SUFFIX

\* Mutant: the id follows the deadline, so a reschedule gets a new id.
DeadlineIdPerDeadline(task) == task.id \o ToString(task.deadline) \o DEADLINE_SUFFIX

\* Mutant: the suffix is dropped.
DeadlineIdBare(task) == task.id

DeadlineId(task) == task.id \o DEADLINE_SUFFIX

\* Mutant: the comparison is not strict.
ReminderDueInclusive(task, t) == task.deadline - ONE_HOUR_MS >= t

ReminderDue(task, t) == task.deadline - ONE_HOUR_MS > t

DeadlineDue(task, t) == task.deadline > t

ReminderRequest(task) ==
    [api |-> "create", id |-> ReminderId(task), title |-> REMINDER_TITLE,
     task |-> task.id, timestamp |-> task.deadline - ONE_HOUR_MS,
     allowWhileIdle |-> FALSE, st |-> "inflight"]

\* Mutant: the deadline trigger without alarmManager.
DeadlineRequestNoAlarmManager(task) ==
    [api |-> "create", id |-> DeadlineId(task), title |-> DEADLINE_TITLE,
     task |-> task.id, timestamp |-> task.deadline,
     allowWhileIdle |-> FALSE, st |-> "inflight"]

DeadlineRequest(task) ==
    [api |-> "create", id |-> DeadlineId(task), title |-> DEADLINE_TITLE,
     task |-> task.id, timestamp |-> task.deadline,
     allowWhileIdle |-> TRUE, st |-> "inflight"]

\* Mutant: the deadline request is made only when there is no reminder to wait for.
SchedulePromisesOneAtATime(task, t) ==
    IF ReminderDue(task, t) THEN <<ReminderRequest(task)>>
    ELSE IF DeadlineDue(task, t) THEN <<DeadlineRequest(task)>>
    ELSE <<>>

\* The promises array at the await of Promise.all.
SchedulePromises(task, t) ==
    (IF ReminderDue(task, t) THEN <<ReminderRequest(task)>> ELSE <<>>)
        \o (IF DeadlineDue(task, t) THEN <<DeadlineRequest(task)>> ELSE <<>>)

\* The call as it awaits requestPermission.
scheduleTaskNotifications(task) ==
    [op |-> "schedule", task |-> task, pc |-> "permission", reqs |-> <<>>,
     result |-> "pending"]

----------------------------------------------------------------------------
(* cancelTaskNotifications *)

CancelRequest(taskId, suffix) ==
    [api |-> "cancel", id |-> taskId \o suffix, title |-> "", task |-> taskId,
     timestamp |-> NoValue, allowWhileIdle |-> FALSE, st |-> "inflight"]

\* Mutant: only the reminder is cancelled.
CancelPromisesReminderOnly(taskId) == <<CancelRequest(taskId, REMINDER_SUFFIX)>>

CancelPromises(taskId) ==
    <<CancelRequest(taskId, REMINDER_SUFFIX), CancelRequest(taskId, DEADLINE_SUFFIX)>>

\* Mutant: the cancel call awaits before it issues its requests.
cancelTaskNotificationsDeferred(taskId) ==
    [op |-> "cancel", task |-> Task(taskId, NoValue, "PENDING", NoValue),
     pc |-> "permission", reqs |-> <<>>, result |-> "pending"]

\* The call as it awaits Promise.all: both requests are issued at once.
cancelTaskNotifications(taskId) ==
    [op |-> "cancel", task |-> Task(taskId, NoValue, "PENDING", NoValue),
     pc |-> "requests", reqs |-> CancelPromises(taskId), result |-> "pending"]

----------------------------------------------------------------------------
(* Promise.all *)

InFlight(reqs) == {j \in 1..Len(reqs) : reqs[j].st = "inflight"}

\* Rejects with the first rejection, resolves once every promise has resolved.
PromiseAll(reqs) ==
    IF \E j \in 1..Len(reqs) : reqs[j].st = "failed" THEN "rejected"
    ELSE IF \A j \in 1..Len(reqs) : reqs[j].st = "ok" THEN "resolved"
    ELSE "pending"

\* A call that has settled keeps no state once its requests have all been answered.
Finished(c) == c.result # "pending" /\ InFlight(c.reqs) = {}

\* The calls in progress are a bag: c0 becomes c, or leaves when c has finished.
Put(cs, c0, c) ==
    (cs (-) SetToBag({c0})) (+) (IF Finished(c) THEN EmptyBag ELSE SetToBag({c}))

----------------------------------------------------------------------------
(* The step just taken *)

NoSettings == [present |-> FALSE, authorizationStatus |-> 0]

NoCall == [op |-> "none", task |-> Task("", NoValue, "PENDING", NoValue),
           pc |-> "none", reqs |-> <<>>, result |-> "pending"]

NoThunk == [type |-> "none", task |-> Task("", NoValue, "PENDING", NoValue),
            newStatus |-> "PENDING", completedAt |-> NoValue, pc |-> "none"]

\* The record of a step; the specifications of the thunks keep no record of the
\* scheduler's steps (rec = FALSE).
Event(ev, c, settings, j, overwrote, settledNow) ==
    [ev |-> ev, call |-> c, at |-> now, settings |-> settings, req |-> j,
     overwrote |-> overwrote, settledNow |-> settledNow,
     thunk |-> NoThunk, outcome |-> "none", payload |-> NoThunk.task]

Unrecorded ==
    [ev |-> "scheduler", call |-> NoCall, at |-> 0, settings |-> NoSettings, req |-> 0,
     overwrote |-> FALSE, settledNow |-> FALSE,
     thunk |-> NoThunk, outcome |-> "none", payload |-> NoThunk.task]

Record(rec, event) == IF rec THEN event ELSE Unrecorded

----------------------------------------------------------------------------
(* Steps of the scheduler and of the delivery service *)

\* requestPermission rejects: the call rejects at line 42.
PermissionFails(c0, rec) ==
    /\ c0.pc = "permission"
    /\ LET c == [c0 EXCEPT !.pc = "done", !.result = "rejected"] IN
       /\ calls' = Put(calls, c0, c)
       /\ last' = Record(rec, Event("permissionFailed", c, NoSettings, 0, FALSE, TRUE))
    /\ UNCHANGED <<now, triggers>>

\* requestPermission resolves: lines 42-101 up to the await of Promise.all.
PermissionSettles(c0, settings, rec) ==
    /\ c0.pc = "permission"
    /\ LET c  == IF NotGranted(settings)
                 THEN [c0 EXCEPT !.pc = "done", !.result = "resolved"]
                 ELSE LET ps == SchedulePromises(c0.task, now) IN
                      [c0 EXCEPT !.pc = "requests", !.reqs = ps,
                                 !.result = PromiseAll(ps)]
       IN /\ calls' = Put(calls, c0, c)
          /\ last' = Record(rec, Event("permission", c, settings, 0, FALSE,
                                        c.result # "pending"))
    /\ UNCHANGED <<now, triggers>>

\* The delivery service answers one request: it takes effect, or it fails.
RequestSettles(c0, j, ok, rec) ==
    /\ c0.pc = "requests"
    /\ j \in InFlight(c0.reqs)
    /\ LET r   == c0.reqs[j]
           rs  == [c0.reqs EXCEPT ![j].st = IF ok THEN "ok" ELSE "failed"]
           res == IF c0.result = "pending" THEN PromiseAll(rs) ELSE c0.result
           c   == [c0 EXCEPT !.reqs = rs, !.result = res]
       IN /\ triggers' =
                IF ~ok THEN triggers
                ELSE IF r.api = "create"
                     THEN Outstanding(createTriggerNotification(triggers, r), now)
                     ELSE cancelTriggerNotification(triggers, r.id)
          /\ calls' = Put(calls, c0, c)
          /\ last' = Record(rec,
                        Event("request", c, NoSettings, j,
                              ok /\ r.api = "create" /\ \E x \in triggers : x.id = r.id,
                              c0.result = "pending" /\ res # "pending"))
    /\ UNCHANGED now

\* An hour passes; the triggers whose time has come fire.
Tick(rec) ==
    /\ now < MaxHour * ONE_HOUR_MS
    /\ now' = now + ONE_HOUR_MS
    /\ triggers' = Outstanding(triggers, now')
    /\ last' = Record(rec, [Event("tick", NoCall, NoSettings, 0, FALSE, FALSE)
                                EXCEPT !.at = now'])
    /\ UNCHANGED calls

SchedulerStep(rec) ==
    \/ \E c \in BagToSet(calls) : PermissionFails(c, rec)
    \/ \E c \in BagToSet(calls), s \in PermissionSettings : PermissionSettles(c, s, rec)
    \/ \E c \in BagToSet(calls), j \in 1..2, ok \in BOOLEAN :
          RequestSettles(c, j, ok, rec)
    \/ Tick(rec)

----------------------------------------------------------------------------
(* The scheduler called directly *)

CallSchedule(task, limit) ==
    /\ BagCardinality(calls) < limit
    /\ calls' = calls (+) SetToBag({scheduleTaskNotifications(task)})
    /\ last' = Event("schedule", scheduleTaskNotifications(task), NoSettings, 0, FALSE, FALSE)
    /\ UNCHANGED <<now, triggers>>

CallCancel(taskId, limit) ==
    /\ BagCardinality(calls) < limit
    /\ calls' = calls (+) SetToBag({cancelTaskNotifications(taskId)})
    /\ last' = Event("cancel", cancelTaskNotifications(taskId), NoSettings, 0, FALSE, FALSE)
    /\ UNCHANGED <<now, triggers>>

\* An array as the selectors see it: its identity (reference) and its elements.
Array(ref, items) == [ref |-> ref, items |-> items]

\* The cache of one createSelector selector: the input it last ran on, the result it
\* returned, the value of Date.now() it read, and selector.recomputations().
NoCache ==
    [hasRun |-> FALSE, input |-> Array(NoValue, <<>>), result |-> Array(NoValue, <<>>),
     at |-> NoValue, recomputations |-> 0]

NoMemo ==
    [smartSorted |-> NoCache, pending |-> NoCache, completed |-> NoCache,
     consistency |-> NoCache]

\* Nothing rendered yet.
NoDetail == [shown |-> FALSE, index |-> 0, timeHealth |-> 0, at |-> NoValue]

initialState == [tasks |-> <<>>, loading |-> FALSE, error |-> "null"]

Init ==
    /\ now = 0
    /\ triggers = {}
    /\ calls = EmptyBag
    /\ last = Event("init", NoCall, NoSettings, 0, FALSE, FALSE)
    /\ docs = {}
    /\ store = initialState
    /\ thunks = EmptyBag
    /\ assigned = {}
    /\ collection = Array(0, initialState.tasks)
    /\ memo = NoMemo
    /\ detail = NoDetail

\* Any sequence and interleaving of schedule and cancel calls for one task.
NextSched ==
    \/ \E task \in NewTasks({"t1"}) : CallSchedule(task, MaxCalls) /\ UNCHANGED storeVars /\ UNCHANGED viewVars
    \/ CallCancel("t1", MaxCalls) /\ UNCHANGED storeVars /\ UNCHANGED viewVars
    \/ SchedulerStep(TRUE) /\ UNCHANGED storeVars /\ UNCHANGED viewVars

SpecSched == Init /\ [][NextSched]_vars

\* Schedule and cancel calls for two tasks.
NextTwoTasks ==
    \/ \E task \in NewTasks(TaskIds) :
          CallSchedule(task, MaxCallsTwoTasks) /\ UNCHANGED storeVars /\ UNCHANGED viewVars
    \/ \E taskId \in TaskIds : CallCancel(taskId, MaxCallsTwoTasks) /\ UNCHANGED storeVars /\ UNCHANGED viewVars
    \/ SchedulerStep(TRUE) /\ UNCHANGED storeVars /\ UNCHANGED viewVars

SpecTwoTasks == Init /\ [][NextTwoTasks]_vars

----------------------------------------------------------------------------
(* store/tasksSlice: the thunks *)

\* The ids addDoc can hand out: each is used once.
DocIds == {"t1"}

\* The deadlines the screens submit: within the hour (no reminder) and later.
Deadlines == {ONE_HOUR_MS, 2 * ONE_HOUR_MS}

FIRESTORE_ERROR == "firestore error"

Thunk(type, task, newStatus, completedAt) ==
    [type |-> type, task |-> task, newStatus |-> newStatus,
     completedAt |-> completedAt, pc |-> "write"]

\* addTask: the task as AddTaskSheet builds it, without an id.
addTask(task) == Thunk("addTask", [task EXCEPT !.id = ""], "PENDING", NoValue)

updateTask(task) == Thunk("updateTask", task, task.status, NoValue)

deleteTask(taskId) ==
    Thunk("deleteTask", Task(taskId, NoValue, "PENDING", NoValue), "PENDING", NoValue)

\* subtasks.map(s => s.id === subtaskId ? { ...s, isCompleted: !s.isCompleted } : s)
updatedSubtasks(subtasks, j) == [subtasks EXCEPT ![j] = ~@]

\* toggleSubtask: only taskId and the updated subtasks are kept.
toggleSubtask(taskId, j, subtasks) ==
    Thunk("toggleSubtask",
          [Task(taskId, NoValue, "PENDING", NoValue)
              EXCEPT !.subtasks = updatedSubtasks(subtasks, j)],
          "PENDING", NoValue)

\* toggleTaskStatus: newStatus and completedAt are computed before the write.
toggleTaskStatus(task, t) ==
    LET newStatus == IF task.status = "PENDING" THEN "COMPLETED" ELSE "PENDING" IN
    Thunk("toggleTaskStatus", task, newStatus,
          IF newStatus = "COMPLETED" THEN t ELSE Null)

\* completedAt ?? undefined
OrUndefined(x) == IF x = Null THEN NoValue ELSE x

\* What the thunk returns once its write has succeeded; id is the id of the document.
\* toggleSubtask returns { taskId, updatedSubtasks }.
Payload(th, id) ==
    IF th.type = "addTask" THEN [th.task EXCEPT !.id = id]
    ELSE IF th.type = "toggleTaskStatus"
         THEN [th.task EXCEPT !.status = th.newStatus,
                              !.completedAt = OrUndefined(th.completedAt)]
    ELSE th.task

\* Mutant: toggleSubtask cancels the notifications of its task.
SchedulerCallsOnSubtask(th, id) ==
    IF th.type = "addTask" THEN <<scheduleTaskNotifications(Payload(th, id))>>
    ELSE IF th.type = "updateTask"
         THEN <<cancelTaskNotifications(th.task.id), scheduleTaskNotifications(th.task)>>
    ELSE IF th.type = "deleteTask" THEN <<cancelTaskNotifications(th.task.id)>>
    ELSE IF th.type = "toggleSubtask" THEN <<cancelTaskNotifications(th.task.id)>>
    ELSE IF th.newStatus = "COMPLETED" THEN <<cancelTaskNotifications(th.task.id)>>
    ELSE <<scheduleTaskNotifications(Payload(th, id))>>

\* The scheduler calls the thunk makes once its write has succeeded, in order.
SchedulerCalls(th, id) ==
    IF th.type = "addTask" THEN <<scheduleTaskNotifications(Payload(th, id))>>
    ELSE IF th.type = "updateTask"
         THEN <<cancelTaskNotifications(th.task.id), scheduleTaskNotifications(th.task)>>
    ELSE IF th.type = "deleteTask" THEN <<cancelTaskNotifications(th.task.id)>>
    ELSE IF th.type = "toggleSubtask" THEN <<>>
    ELSE IF th.newStatus = "COMPLETED" THEN <<cancelTaskNotifications(th.task.id)>>
    ELSE <<scheduleTaskNotifications(Payload(th, id))>>

\* Mutant: addTask awaits its schedule call before it returns.
AwaitsSchedulerOnAdd(type) == type = "addTask"

\* The scheduler calls are not awaited: call(...).catch(() => null), then return.
AwaitsScheduler(type) == FALSE

----------------------------------------------------------------------------
(* The repository *)

DocOf(ds, id) == {d \in ds : d.id = id}

\* addDoc needs an unused id; updateDoc needs the document; deleteDoc needs nothing.
CanWrite(th, ds, used) ==
    IF th.type = "addTask" THEN DocIds \ used # {}
    ELSE IF th.type = "deleteTask" THEN TRUE
    ELSE DocOf(ds, th.task.id) # {}

\* updateDoc(ref, data) sets the fields of data and keeps the others; a task that has
\* no completedAt carries no such field.
Merged(d, data) ==
    [data EXCEPT !.id = d.id,
                 !.completedAt = IF @ = NoValue THEN d.completedAt ELSE @]

\* The documents after the write of th; id is the id of its document.
Written(th, ds, id) ==
    IF th.type = "addTask" THEN ds \cup {Payload(th, id)}
    ELSE IF th.type = "updateTask"
         THEN {IF d.id = id THEN Merged(d, th.task) ELSE d : d \in ds}
    ELSE IF th.type = "deleteTask" THEN ds \ DocOf(ds, id)
    ELSE IF th.type = "toggleSubtask"
         THEN {IF d.id = id THEN [d EXCEPT !.subtasks = th.task.subtasks] ELSE d :
                  d \in ds}
    ELSE {IF d.id = id
          THEN [d EXCEPT !.status = th.newStatus, !.completedAt = th.completedAt]
          ELSE d : d \in ds}

\* The query snapshot (ordered by createdAt); DocIds holds one id.
SnapshotDocs(ds) == IF ds = {} THEN <<>> ELSE <<CHOOSE d \in ds : TRUE>>

----------------------------------------------------------------------------
(* store/tasksSlice: the reducers *)

findIndex(tasks, id) ==
    IF \E i \in 1..Len(tasks) : tasks[i].id = id
    THEN CHOOSE i \in 1..Len(tasks) :
            tasks[i].id = id /\ \A j \in 1..(i - 1) : tasks[j].id # id
    ELSE 0

filter(tasks, id) == SelectSeq(tasks, LAMBDA t : t.id # id)

setTasks(state, tasks) == [state EXCEPT !.tasks = tasks, !.loading = FALSE]

setTasksLoading(state, loading) == [state EXCEPT !.loading = loading]

pending(state, type) == IF type = "addTask" THEN [state EXCEPT !.error = "null"] ELSE state

fulfilled(state, type, payload) ==
    IF type = "addTask" THEN [state EXCEPT !.loading = FALSE]
    ELSE IF type = "deleteTask" THEN [state EXCEPT !.tasks = filter(@, payload.id)]
    ELSE IF type = "toggleSubtask"
         THEN LET idx == findIndex(state.tasks, payload.id) IN
              IF idx # 0 THEN [state EXCEPT !.tasks[idx].subtasks = payload.subtasks]
              ELSE state
    ELSE LET idx == findIndex(state.tasks, payload.id) IN
         IF idx # 0 THEN [state EXCEPT !.tasks[idx] = payload] ELSE state

\* Mutant: every rejection sets the error field only.
rejectedSettingErrorOnly(state, type, message) == [state EXCEPT !.error = message]

rejected(state, type, message) ==
    IF type = "addTask" THEN [state EXCEPT !.loading = FALSE, !.error = message]
    ELSE [state EXCEPT !.error = message]

----------------------------------------------------------------------------
(* Steps of the thunks *)

BagOfSeq(sq) ==
    IF Len(sq) = 0 THEN EmptyBag
    ELSE IF Len(sq) = 1 THEN SetToBag({sq[1]})
    ELSE SetToBag({sq[1]}) (+) SetToBag({sq[2]})

ThunkEvent(ev, th, outcome, payload) ==
    [Event(ev, NoCall, NoSettings, 0, FALSE, FALSE)
        EXCEPT !.thunk = th, !.outcome = outcome, !.payload = payload]

\* dispatch(thunk(...)): the pending reducer runs and the repository write starts.
Dispatch(th, limit) ==
    /\ BagCardinality(thunks) < limit
    /\ thunks' = thunks (+) SetToBag({th})
    /\ store' = pending(store, th.type)
    /\ last' = ThunkEvent("dispatch", NoThunk, "pending", NoThunk.task)
    /\ UNCHANGED <<now, triggers, calls, docs, assigned>>

\* The screens dispatch addTask with a new task and the others with a task of the store.
DispatchAddTask(task, limit) == Dispatch(addTask(task), limit)

DispatchUpdateTask(i, deadline, limit) ==
    /\ i \in 1..Len(store.tasks)
    /\ Dispatch(updateTask([store.tasks[i] EXCEPT !.deadline = deadline]), limit)

DispatchDeleteTask(i, limit) ==
    /\ i \in 1..Len(store.tasks)
    /\ Dispatch(deleteTask(store.tasks[i].id), limit)

DispatchToggleSubtask(i, j, limit) ==
    /\ i \in 1..Len(store.tasks)
    /\ j \in 1..Len(store.tasks[i].subtasks)
    /\ Dispatch(toggleSubtask(store.tasks[i].id, j, store.tasks[i].subtasks), limit)

DispatchToggleTaskStatus(i, limit) ==
    /\ i \in 1..Len(store.tasks)
    /\ Dispatch(toggleTaskStatus(store.tasks[i], now), limit)

\* The write succeeds: the thunk makes its scheduler calls and returns its payload.
WriteSucceeds(th, id, limit) ==
    /\ BagIn(th, thunks) /\ th.pc = "write"
    /\ CanWrite(th, docs, assigned)
    /\ IF th.type = "addTask" THEN id \in DocIds \ assigned ELSE id = th.task.id
    /\ BagCardinality(calls) + Len(SchedulerCalls(th, id)) <= limit
    /\ docs' = Written(th, docs, id)
    /\ assigned' = IF th.type = "addTask" THEN assigned \cup {id} ELSE assigned
    /\ calls' = calls (+) BagOfSeq(SchedulerCalls(th, id))
    /\ IF AwaitsScheduler(th.type)
       THEN /\ thunks' = (thunks (-) SetToBag({th}))
                            (+) SetToBag({[th EXCEPT !.pc = "scheduler"]})
            /\ store' = store
            /\ last' = ThunkEvent("written", th, "pending", Payload(th, id))
       ELSE /\ thunks' = thunks (-) SetToBag({th})
            /\ store' = fulfilled(store, th.type, Payload(th, id))
            /\ last' = ThunkEvent("written", th, "fulfilled", Payload(th, id))
    /\ UNCHANGED <<now, triggers>>

\* The write fails: rejectWithValue(message), no scheduler call.
WriteFails(th) ==
    /\ BagIn(th, thunks) /\ th.pc = "write"
    /\ thunks' = thunks (-) SetToBag({th})
    /\ store' = rejected(store, th.type, FIRESTORE_ERROR)
    /\ last' = ThunkEvent("writeFailed", NoThunk, "rejected", NoThunk.task)
    /\ UNCHANGED <<now, triggers, calls, docs, assigned>>

\* The onSnapshot listener of AuthProvider dispatches setTasks with the documents:
\* the first snapshot after the sign-in, and one after every change.
OnSnapshot ==
    /\ store.loading \/ store.tasks # SnapshotDocs(docs)
    /\ store' = setTasks(store, SnapshotDocs(docs))
    /\ last' = ThunkEvent("snapshot", NoThunk, "none", NoThunk.task)
    /\ UNCHANGED <<now, triggers, calls, docs, thunks, assigned>>

ThunkStep(limit) ==
    \/ \E th \in BagToSet(thunks), id \in DocIds : WriteSucceeds(th, id, limit)
    \/ \E th \in BagToSet(thunks) : WriteFails(th)
    \/ OnSnapshot

Next ==
    \/ \E d \in Deadlines : DispatchAddTask(Task("", d, "PENDING", NoValue), MaxThunks) /\ UNCHANGED viewVars
    \/ \E i \in 1..Len(store.tasks), d \in Deadlines : DispatchUpdateTask(i, d, MaxThunks) /\ UNCHANGED viewVars
    \/ \E i \in 1..Len(store.tasks) : DispatchDeleteTask(i, MaxThunks) /\ UNCHANGED viewVars
    \/ \E i \in 1..Len(store.tasks) : DispatchToggleTaskStatus(i, MaxThunks) /\ UNCHANGED viewVars
    \/ ThunkStep(MaxCalls) /\ UNCHANGED viewVars
    \/ SchedulerStep(FALSE) /\ UNCHANGED storeVars /\ UNCHANGED viewVars

Spec == Init /\ [][Next]_vars

\* addTask and updateTask only: the edits of a task that stays PENDING.
NextEdits ==
    \/ \E d \in Deadlines : DispatchAddTask(Task("", d, "PENDING", NoValue), MaxEdits) /\ UNCHANGED viewVars
    \/ \E i \in 1..Len(store.tasks), d \in Deadlines : DispatchUpdateTask(i, d, MaxEdits) /\ UNCHANGED viewVars
    \/ ThunkStep(MaxEditCalls) /\ UNCHANGED viewVars
    \/ SchedulerStep(FALSE) /\ UNCHANGED storeVars /\ UNCHANGED viewVars

SpecEdits == Init /\ [][NextEdits]_vars

\* AuthProvider, as the user has signed in: setTasksLoading(true), then the listener.
InitStore ==
    /\ now = 0
    /\ triggers = {}
    /\ calls = EmptyBag
    /\ last = Event("init", NoCall, NoSettings, 0, FALSE, FALSE)
    /\ docs = {}
    /\ store = setTasksLoading(initialState, TRUE)
    /\ thunks = EmptyBag
    /\ assigned = {}
    /\ collection = Array(0, initialState.tasks)
    /\ memo = NoMemo
    /\ detail = NoDetail

\* Every thunk of the slice, two of them awaiting their write at one time, from the
\* sign-in on. The calls they make are collected in calls; the steps of the scheduler
\* are left to Spec.
NextStore ==
    \/ \E d \in Deadlines :
          DispatchAddTask(Task("", d, "PENDING", NoValue), MaxInFlight)
            /\ UNCHANGED viewVars
    \/ \E i \in 1..Len(store.tasks), d \in Deadlines :
          DispatchUpdateTask(i, d, MaxInFlight) /\ UNCHANGED viewVars
    \/ \E i \in 1..Len(store.tasks) :
          DispatchDeleteTask(i, MaxInFlight) /\ UNCHANGED viewVars
    \/ \E i \in 1..Len(store.tasks), j \in 1..Len(NoSubtaskDone) :
          DispatchToggleSubtask(i, j, MaxInFlight) /\ UNCHANGED viewVars
    \/ \E i \in 1..Len(store.tasks) :
          DispatchToggleTaskStatus(i, MaxInFlight) /\ UNCHANGED viewVars
    \/ ThunkStep(MaxStoreCalls) /\ UNCHANGED viewVars
    \/ Tick(FALSE) /\ UNCHANGED storeVars /\ UNCHANGED viewVars

SpecStore == InitStore /\ [][NextStore]_vars

----------------------------------------------------------------------------
(* utils/smartSort: numbers *)

\* Scores are JavaScript numbers. The model computes them exactly, as fractions in
\* lowest terms: on the millisecond timestamps used here no two different exact
\* scores round to the same double, and 1 / 0.01 * 50 is 5000 in both.
RECURSIVE GCD(_, _)
GCD(a, b) == IF b = 0 THEN a ELSE GCD(b, a % b)

Abs(n) == IF n < 0 THEN 0 - n ELSE n

\* The number n / d, d # 0.
Num(n, d) ==
    LET g == GCD(Abs(n), Abs(d))
        s == IF d < 0 THEN 0 - 1 ELSE 1
    IN [num |-> s * (n \div g), den |-> s * (d \div g)]

Plus(a, b) == Num(a.num * b.den + b.num * a.den, a.den * b.den)

Times(a, b) == Num(a.num * b.num, a.den * b.den)

Over(a, b) == Num(a.num * b.den, a.den * b.num)

\* The sign of a/b - c/d for a, c >= 0 and b, d > 0, by Euclid's algorithm, so
\* that no product leaves the range of the integers.
RECURSIVE SignOfDifference(_, _, _, _)
SignOfDifference(a, b, c, d) ==
    IF a \div b # c \div d THEN (IF a \div b > c \div d THEN 1 ELSE 0 - 1)
    ELSE IF a % b = 0 \/ c % d = 0
         THEN (IF a % b = c % d THEN 0 ELSE IF a % b = 0 THEN 0 - 1 ELSE 1)
         ELSE SignOfDifference(d, c % d, b, a % b)

\* The sign of x - y, for scores x, y >= 0.
Sign(x, y) == SignOfDifference(x.num, x.den, y.num, y.den)

----------------------------------------------------------------------------
(* utils/smartSort: tasks, reduced to the fields computeScore and the selectors read *)

Priorities == {"LOW", "MEDIUM", "HIGH"}

Statuses == {"PENDING", "COMPLETED"}

PrioritisedTask(id, priority, deadline, status) ==
    [id |-> id, priority |-> priority, deadline |-> deadline, status |-> status]

\* Date.now() when a selector runs: at a deadline, and one second after it.
SelectorClocks == {ONE_HOUR_MS, ONE_HOUR_MS + 1000}

\* Deadlines: now, one second from now or before now, an hour and more away.
SelectorDeadlines == {ONE_HOUR_MS, ONE_HOUR_MS + 1000, 2 * ONE_HOUR_MS}

\* The tasks of a raw collection; nothing keeps two of them from having one id.
SelectorTasks ==
    {PrioritisedTask(id, p, d, s) :
        id \in {"a", "b"}, p \in Priorities, d \in SelectorDeadlines, s \in Statuses}

Collections(tasks, n) == UNION {[1..k -> tasks] : k \in 0..n}

----------------------------------------------------------------------------
(* utils/smartSort: computeScore *)

PRIORITY_WEIGHTS_FLAT == [HIGH |-> 50 + 50, MEDIUM |-> 50 + 50, LOW |-> 5 + 5]

PRIORITY_WEIGHTS == [HIGH |-> 100, MEDIUM |-> 50, LOW |-> 10]

URGENCY_MULTIPLIER == 50

MS_PER_HOUR == 1000 * 60 * 60

\* An overdue task is given the hours it is overdue instead of the fixed 0.01.
hoursRemainingByLateness(msRemaining) ==
    IF msRemaining > 0 THEN Over(Num(msRemaining, 1), Num(MS_PER_HOUR, 1))
    ELSE IF msRemaining = 0 THEN Num(1, 100)
    ELSE Over(Num(0 - msRemaining, 1), Num(MS_PER_HOUR, 1))

hoursRemaining(msRemaining) ==
    IF msRemaining > 0 THEN Over(Num(msRemaining, 1), Num(MS_PER_HOUR, 1))
    ELSE Num(1, 100)

urgencyWeight(msRemaining) ==
    Times(Over(Num(1, 1), hoursRemaining(msRemaining)), Num(URGENCY_MULTIPLIER, 1))

\* The early return for COMPLETED tasks left out.
computeScoreOfAnyStatus(task, t) ==
    Plus(Num(PRIORITY_WEIGHTS[task.priority], 1), urgencyWeight(task.deadline - t))

computeScore(task, t) ==
    IF task.status = "COMPLETED" THEN Num(0, 1)
    ELSE Plus(Num(PRIORITY_WEIGHTS[task.priority], 1), urgencyWeight(task.deadline - t))

----------------------------------------------------------------------------
(* utils/smartSort: the selectors *)

ScoredTask(task, score) ==
    [id |-> task.id, priority |-> task.priority, deadline |-> task.deadline,
     status |-> task.status, score |-> score]

\* ScoredTask without its score.
Unscored(x) == PrioritisedTask(x.id, x.priority, x.deadline, x.status)

map(tasks, t) == [i \in 1..Len(tasks) |-> ScoredTask(tasks[i], computeScore(tasks[i], t))]

\* (a, b) => a.score - b.score
compareFnAscending(a, b) == Sign(a.score, b.score)

\* (a, b) => b.score - a.score: negative when a goes first.
compareFn(a, b) == Sign(b.score, a.score)

\* x put in front of the elements it ties with.
InsertBeforeTies(arr, x) ==
    LET k == Cardinality({i \in 1..Len(arr) : compareFn(arr[i], x) < 0})
    IN SubSeq(arr, 1, k) \o <<x>> \o SubSeq(arr, k + 1, Len(arr))

\* x put into the sorted array arr behind every element that does not go after it.
Insert(arr, x) ==
    LET k == Cardinality({i \in 1..Len(arr) : compareFn(arr[i], x) <= 0})
    IN SubSeq(arr, 1, k) \o <<x>> \o SubSeq(arr, k + 1, Len(arr))

\* Array.prototype.sort with compareFn: a stable sort (ECMAScript 2019).
RECURSIVE sort(_)
sort(arr) ==
    IF Len(arr) = 0 THEN arr
    ELSE Insert(sort(SubSeq(arr, 1, Len(arr) - 1)), arr[Len(arr)])

\* The result function of selectSmartSortedTasks, with now = Date.now().
smartSorted(tasks, t) == sort(map(tasks, t))

\* Every entry passes the filter.
pendingUnfiltered(tasks) == tasks

\* tasks.filter(t => t.status === 'PENDING')
pendingOnly(tasks) == SelectSeq(tasks, LAMBDA t : t.status = "PENDING")

\* tasks.filter(t => t.status === 'COMPLETED')
completedOnly(tasks) == SelectSeq(tasks, LAMBDA t : t.status = "COMPLETED")

\* The cached result is returned when the input has the contents it had last time.
HitByContents(cache, input) == cache.hasRun /\ cache.input.items = input.items

\* createSelector: the cached result is returned when the input selector yields the
\* very array it yielded last time.
Hit(cache, input) == cache.hasRun /\ cache.input.ref = input.ref

\* Mutant: every call runs the result function.
MemoizeNothing(cache, input, items, t) ==
    [hasRun |-> TRUE, input |-> input,
     result |-> Array(cache.recomputations + 1, items),
     at |-> t, recomputations |-> cache.recomputations + 1]

\* One call of a selector made by createSelector; items is what its result function
\* returns for the input, in a new array.
Memoize(cache, input, items, t) ==
    IF Hit(cache, input) THEN cache
    ELSE [hasRun |-> TRUE, input |-> input,
          result |-> Array(cache.recomputations + 1, items),
          at |-> t, recomputations |-> cache.recomputations + 1]

selectTasks == collection

selectSmartSortedTasks(m) ==
    [m EXCEPT !.smartSorted =
        Memoize(@, selectTasks, smartSorted(selectTasks.items, now), now)]

selectPendingTasks(m) ==
    LET m1 == selectSmartSortedTasks(m)
    IN [m1 EXCEPT !.pending =
            Memoize(@, m1.smartSorted.result, pendingOnly(m1.smartSorted.result.items), NoValue)]

selectCompletedTasks(m) ==
    LET m1 == selectSmartSortedTasks(m)
    IN [m1 EXCEPT !.completed =
            Memoize(@, m1.smartSorted.result, completedOnly(m1.smartSorted.result.items), NoValue)]

SelectorEvent(ev) == Event(ev, NoCall, NoSettings, 0, FALSE, FALSE)

\* useAppSelector(selectSmartSortedTasks)
SelectSmartSortedTasks(rec) ==
    /\ memo' = selectSmartSortedTasks(memo)
    /\ last' = IF rec THEN SelectorEvent("selectSmartSortedTasks") ELSE last
    /\ UNCHANGED <<now, triggers, calls, docs, store, thunks, assigned, collection, detail>>

\* useAppSelector(selectPendingTasks)
SelectPendingTasks(rec) ==
    /\ memo' = selectPendingTasks(memo)
    /\ last' = IF rec THEN SelectorEvent("selectPendingTasks") ELSE last
    /\ UNCHANGED <<now, triggers, calls, docs, store, thunks, assigned, collection, detail>>

\* useAppSelector(selectCompletedTasks)
SelectCompletedTasks(rec) ==
    /\ memo' = selectCompletedTasks(memo)
    /\ last' = IF rec THEN SelectorEvent("selectCompletedTasks") ELSE last
    /\ UNCHANGED <<now, triggers, calls, docs, store, thunks, assigned, collection, detail>>

\* The selectors applied to any raw collection of up to MaxTasks tasks, at any time.
InitView ==
    /\ now \in SelectorClocks
    /\ triggers = {}
    /\ calls = EmptyBag
    /\ last = Event("init", NoCall, NoSettings, 0, FALSE, FALSE)
    /\ docs = {}
    /\ store = initialState
    /\ thunks = EmptyBag
    /\ assigned = {}
    /\ collection \in {Array(0, tasks) : tasks \in Collections(SelectorTasks, MaxTasks)}
    /\ memo = NoMemo
    /\ detail = NoDetail

NextView ==
    \/ SelectSmartSortedTasks(FALSE)
    \/ SelectPendingTasks(FALSE)
    \/ SelectCompletedTasks(FALSE)

SpecView == InitView /\ [][NextView]_vars

\* The collections the reducers put into the store while the selectors are in use:
\* tasks are added, reordered and removed.
MemoCollections ==
    LET a == PrioritisedTask("a", "HIGH", 2 * ONE_HOUR_MS, "PENDING")
        b == PrioritisedTask("b", "LOW", ONE_HOUR_MS, "PENDING")
        c == PrioritisedTask("b", "LOW", ONE_HOUR_MS, "COMPLETED")
    IN {<<>>, <<a>>, <<a, b>>, <<b, a>>, <<a, c>>}

\* A reducer assigns state.tasks: the selectors are given a new array.
TasksAssigned(tasks) ==
    /\ collection.ref < MaxRefs
    /\ collection' = Array(collection.ref + 1, tasks)
    /\ last' = SelectorEvent("tasksAssigned")
    /\ UNCHANGED <<now, triggers, calls, docs, store, thunks, assigned, memo, detail>>

\* Selector calls between the changes of the collection, while time passes.
NextMemo ==
    \/ \E tasks \in MemoCollections : TasksAssigned(tasks)
    \/ SelectSmartSortedTasks(TRUE)
    \/ SelectPendingTasks(TRUE)
    \/ SelectCompletedTasks(TRUE)
    \/ Tick(TRUE) /\ UNCHANGED storeVars /\ UNCHANGED viewVars

SpecMemo == Init /\ [][NextMemo]_vars

----------------------------------------------------------------------------
(* utils/smartSort: computeConsistencyScore and computeTimeHealth *)

\* Tasks reduced to the fields the two functions read.
TimedTask(status, deadline, createdAt, completedAt) ==
    [status |-> status, deadline |-> deadline, createdAt |-> createdAt,
     completedAt |-> completedAt]

\* x == null
IsNullish(x) == x = NoValue \/ x = Null

\* The sign of x - y for numbers of either sign.
Compare(x, y) ==
    IF x.num >= 0 /\ y.num >= 0 THEN Sign(x, y)
    ELSE IF x.num < 0 /\ y.num < 0
         THEN Sign([y EXCEPT !.num = 0 - y.num], [x EXCEPT !.num = 0 - x.num])
    ELSE IF x.num < 0 THEN 0 - 1 ELSE 1

max(x, y) == IF Compare(x, y) >= 0 THEN x ELSE y

min(x, y) == IF Compare(x, y) <= 0 THEN x ELSE y

\* Math.floor
MathFloor(x) == x.num \div x.den

\* Math.round: the integer nearest to x, the upper one of two equally near.
MathRound(x) == (2 * x.num + x.den) \div (2 * x.den)

\* The deadline itself counts as overdue.
IsOverdueFromDeadline(t, at) == t.status = "PENDING" /\ t.deadline <= at

IsOnTime(t) ==
    t.status = "COMPLETED" /\ ~IsNullish(t.completedAt) /\ t.completedAt <= t.deadline

IsLate(t) ==
    t.status = "COMPLETED" /\ (IsNullish(t.completedAt) \/ t.completedAt > t.deadline)

IsOverdue(t, at) == t.status = "PENDING" /\ t.deadline < at

computeConsistencyScore(tasks, at) ==
    LET onTime == Len(SelectSeq(tasks, IsOnTime))
        late == Len(SelectSeq(tasks, IsLate))
        overdue == Len(SelectSeq(tasks, LAMBDA t : IsOverdue(t, at)))
        total == onTime + late + overdue
    IN IF total = 0 THEN 0
       ELSE MathRound(Times(Over(Num(onTime, 1), Num(total, 1)), Num(100, 1)))

\* The percentage as it is computed, not brought into 0 .. 100.
Unclamped(x) == x

\* Math.max(0, Math.min(100, x))
Clamped(x) == max(Num(0, 1), min(Num(100, 1), x))

\* A task completed exactly at its deadline counts as late.
computeTimeHealthBeforeDeadlineOnly(task, at) ==
    IF task.status = "COMPLETED"
    THEN (IF ~IsNullish(task.completedAt) /\ task.completedAt < task.deadline
          THEN 100 ELSE 0)
    ELSE 0

computeTimeHealth(task, at) ==
    IF task.status = "COMPLETED"
    THEN (IF ~IsNullish(task.completedAt) /\ task.completedAt <= task.deadline
          THEN 100 ELSE 0)
    ELSE LET total == task.deadline - task.createdAt
             remaining == task.deadline - at
         IN IF total <= 0 THEN 0
            ELSE MathRound(Clamped(Times(Over(Num(remaining, 1), Num(total, 1)),
                                         Num(100, 1))))

\* The result function of selectConsistencyScore: now is Date.now().
selectConsistencyScore(m) ==
    [m EXCEPT !.consistency =
        Memoize(@, selectTasks, computeConsistencyScore(selectTasks.items, now), now)]

\* useAppSelector(selectConsistencyScore)
SelectConsistencyScore(rec) ==
    /\ memo' = selectConsistencyScore(memo)
    /\ last' = IF rec THEN SelectorEvent("selectConsistencyScore") ELSE last
    /\ UNCHANGED <<now, triggers, calls, docs, store, thunks, assigned, collection, detail>>

\* TaskDetailScreen renders the task at position i: computeTimeHealth(task).
RenderTaskDetail(i) ==
    /\ i \in 1..Len(collection.items)
    /\ detail' = [shown |-> TRUE, index |-> i,
                  timeHealth |-> computeTimeHealth(collection.items[i], now), at |-> now]
    /\ UNCHANGED <<now, triggers, calls, last, docs, store, thunks, assigned, collection,
                   memo>>

\* Histories: tasks with the deadline 1000, completed before, at or after it, completed
\* without a completedAt, or still pending.
HistoryTasks ==
    {TimedTask("COMPLETED", 1000, 0, c) : c \in {NoValue, 1000, 1001}}
        \cup {TimedTask("PENDING", 1000, 0, NoValue)}

\* Date.now() at the deadline and just after it.
HistoryClocks == {1000, 1001}

InitConsistency ==
    /\ now \in HistoryClocks
    /\ triggers = {}
    /\ calls = EmptyBag
    /\ last = Event("init", NoCall, NoSettings, 0, FALSE, FALSE)
    /\ docs = {}
    /\ store = initialState
    /\ thunks = EmptyBag
    /\ assigned = {}
    /\ collection \in {Array(0, tasks) : tasks \in Collections(HistoryTasks, MaxHistory)}
    /\ memo = NoMemo
    /\ detail = NoDetail

NextConsistency == SelectConsistencyScore(FALSE)

SpecConsistency == InitConsistency /\ [][NextConsistency]_vars

\* The tasks the detail screen shows: created at 0, 400 or 1000 with the deadline 400
\* or 1000, pending or completed.
HealthTasks ==
    {TimedTask("PENDING", d, c, NoValue) : d \in {400, 1000}, c \in {0, 400, 1000}}
        \cup {TimedTask("COMPLETED", d, c, x) :
                d \in {400, 1000}, c \in {0, 400, 1000},
                x \in {NoValue, Null, 400, 401, 1000, 1001}}

HealthClocks == {0, 5, 200, 500, 800, 995, 1000, 1001, 1500}

InitHealth ==
    /\ now \in HealthClocks
    /\ triggers = {}
    /\ calls = EmptyBag
    /\ last = Event("init", NoCall, NoSettings, 0, FALSE, FALSE)
    /\ docs = {}
    /\ store = initialState
    /\ thunks = EmptyBag
    /\ assigned = {}
    /\ collection \in {Array(0, <<task>>) : task \in HealthTasks}
    /\ memo = NoMemo
    /\ detail = NoDetail

NextHealth == \E i \in 1..Len(collection.items) : RenderTaskDetail(i)

SpecHealth == InitHealth /\ [][NextHealth]_vars

\* The collections the home screen projects while time passes: a pending task due in
\* two hours, a pending task due in one hour, a task completed on time.
ProjectedCollections ==
    LET task(id, priority, deadline, status, completedAt) ==
            [id |-> id, priority |-> priority, deadline |-> deadline,
             status |-> status, createdAt |-> 0, completedAt |-> completedAt]
        a == task("a", "HIGH", 2 * ONE_HOUR_MS, "PENDING", NoValue)
        b == task("b", "LOW", ONE_HOUR_MS, "PENDING", NoValue)
        c == task("c", "MEDIUM", ONE_HOUR_MS, "COMPLETED", 0)
    IN {<<a, b, c>>, <<b, c>>, <<a, b>>}

InitProjector ==
    /\ now = 0
    /\ triggers = {}
    /\ calls = EmptyBag
    /\ last = Event("init", NoCall, NoSettings, 0, FALSE, FALSE)
    /\ docs = {}
    /\ store = initialState
    /\ thunks = EmptyBag
    /\ assigned = {}
    /\ collection \in {Array(0, tasks) : tasks \in ProjectedCollections}
    /\ memo = NoMemo
    /\ detail = NoDetail

\* HomeScreen and ProgressBar select the ranked list and the consistency score between
\* the changes of the collection, while time passes.
NextProjector ==
    \/ \E tasks \in ProjectedCollections : TasksAssigned(tasks)
    \/ SelectSmartSortedTasks(TRUE)
    \/ SelectConsistencyScore(TRUE)
    \/ Tick(TRUE) /\ UNCHANGED storeVars /\ UNCHANGED viewVars

SpecProjector == InitProjector /\ [][NextProjector]_vars

----------------------------------------------------------------------------
(* Claims about the scheduler *)

TriggersOf(trigs, taskId, title) == {x \in trigs : x.task = taskId /\ x.title = title}

Granted(settings) == settings.present /\ settings.authorizationStatus >= 1

HasRequest(c, title) == \E j \in 1..Len(c.reqs) : c.reqs[j].title = title

\* C1: whatever schedule and cancel calls were made for a task, and however they
\* interleave, the delivery service holds at most one reminder trigger and at most
\* one deadline trigger of that task.
C1_AtMostOnePerTimer ==
    \A k \in TaskIds, title \in Titles : Cardinality(TriggersOf(triggers, k, title)) <= 1

\* A later schedule call has just replaced the trigger an earlier one created.
C1_Witness ==
    /\ last.ev = "request"
    /\ last.overwrote
    /\ \E x \in triggers : x.title = DEADLINE_TITLE

\* C5: with permission granted, the reminder is requested iff deadline - 1 hour > now
\* and the deadline iff deadline > now, each decided on its own, and nothing else is
\* requested.
C5_StrictFutureOnly ==
    (last.ev = "permission" /\ Granted(last.settings)) =>
        /\ HasRequest(last.call, REMINDER_TITLE)
              <=> (last.call.task.deadline - ONE_HOUR_MS > last.at)
        /\ HasRequest(last.call, DEADLINE_TITLE) <=> (last.call.task.deadline > last.at)
        /\ Len(last.call.reqs)
              = (IF last.call.task.deadline - ONE_HOUR_MS > last.at THEN 1 ELSE 0)
                + (IF last.call.task.deadline > last.at THEN 1 ELSE 0)

\* A task due within the hour: the deadline request alone was submitted.
C5_Witness ==
    /\ last.ev = "permission" /\ Granted(last.settings)
    /\ last.call.task.deadline = last.at + ONE_HOUR_MS
    /\ Len(last.call.reqs) = 1
    /\ HasRequest(last.call, DEADLINE_TITLE)

\* C6: when permission is not granted (no settings, or authorizationStatus < 1) the
\* schedule call submits no request, changes no trigger and resolves; and every
\* schedule call starts by requesting permission, whatever earlier calls were told.
C6_DeniedIsNoOp ==
    [][/\ (last'.ev = "permission" /\ ~Granted(last'.settings)) =>
              /\ last'.call.reqs = <<>>
              /\ last'.call.result = "resolved"
              /\ triggers' = triggers
              /\ BagCardinality(calls') = BagCardinality(calls) - 1
       /\ last'.ev = "schedule" =>
              /\ last'.call.pc = "permission"
              /\ last'.call.reqs = <<>>
              /\ BagIn(last'.call, calls')]_vars

\* Permission was denied while the task had triggers outstanding.
C6_Witness ==
    /\ last.ev = "permission"
    /\ last.settings.present /\ last.settings.authorizationStatus = 0
    /\ triggers # {}

\* C7: a schedule call settles only once both of its submissions have settled,
\* whether they succeeded or failed.
C7_SettlesAfterBoth ==
    (last.call.op = "schedule" /\ last.settledNow) => InFlight(last.call.reqs) = {}

\* C8: cancel issues exactly the two cancellation requests, for {taskId}-reminder and
\* {taskId}-deadline, at once and without asking permission; a cancellation of an id
\* that has no trigger changes nothing, and the call resolves when both are answered.
C8_CancelBothUnconditionally ==
    [][/\ last'.ev = "cancel" =>
              /\ Len(last'.call.reqs) = 2
              /\ \A j \in 1..2 : /\ last'.call.reqs[j].api = "cancel"
                                 /\ last'.call.reqs[j].st = "inflight"
              /\ last'.call.reqs[1].id = last'.call.task.id \o "-reminder"
              /\ last'.call.reqs[2].id = last'.call.task.id \o "-deadline"
              /\ last'.call.pc = "requests"
              /\ BagIn(last'.call, calls')
       /\ (last'.ev = "request" /\ last'.call.op = "cancel") =>
              /\ ~(\E x \in triggers : x.id = last'.call.reqs[last'.req].id)
                    => triggers' = triggers
              /\ (\A j \in 1..Len(last'.call.reqs) : last'.call.reqs[j].st = "ok")
                    => last'.call.result = "resolved"]_vars

\* A cancel for a task without triggers has resolved.
C8_Witness ==
    /\ last.ev = "request" /\ last.call.op = "cancel"
    /\ last.call.result = "resolved" /\ last.settledNow
    /\ triggers = {}
    /\ Len(last.call.reqs) = 2

CreateRequestsOf(c) == {c.reqs[j] : j \in {i \in 1..Len(c.reqs) : c.reqs[i].api = "create"}}

\* C10: every deadline request carries allowWhileIdle and fires at task.deadline;
\* every reminder request carries no such flag and fires at task.deadline - 1 hour;
\* the triggers in the delivery service are as requested.
C10_DeadlineWhileIdle ==
    /\ \A c \in BagToSet(calls) \cup {last.call} : \A r \in CreateRequestsOf(c) :
          /\ r.title \in Titles
          /\ r.title = DEADLINE_TITLE =>
                r.allowWhileIdle /\ r.timestamp = c.task.deadline
          /\ r.title = REMINDER_TITLE =>
                ~r.allowWhileIdle /\ r.timestamp = c.task.deadline - ONE_HOUR_MS
    /\ \A x \in triggers : x.allowWhileIdle <=> x.title = DEADLINE_TITLE

\* Both triggers of a task are outstanding, an hour apart.
C10_Witness ==
    \E x, y \in triggers :
        /\ x.title = REMINDER_TITLE /\ y.title = DEADLINE_TITLE
        /\ y.timestamp = x.timestamp + ONE_HOUR_MS

\* C9: the trigger id is a function of (task id, timer kind) alone, the same in
\* schedule and in cancel, and different pairs have different ids; so a step taken
\* for one task leaves the triggers of every other task as they were.
C9_IdsCollisionFree ==
    /\ \A t1, t2 \in NewTasks(TaskIds) :
          /\ ReminderId(t1) = ReminderId(t2) => t1.id = t2.id
          /\ DeadlineId(t1) = DeadlineId(t2) => t1.id = t2.id
          /\ ReminderId(t1) # DeadlineId(t2)
          /\ CancelPromises(t1.id)[1].id = ReminderId(t1)
          /\ CancelPromises(t1.id)[2].id = DeadlineId(t1)
    /\ [][\A k \in TaskIds :
             last'.call.task.id # k =>
                 {x \in triggers' : x.task = k}
                     = {x \in triggers : x.task = k /\ x.timestamp > now'}]_vars

\* Both tasks have triggers outstanding and a request for one of them was just answered.
C9_Witness ==
    /\ last.ev = "request" /\ last.call.reqs[last.req].st = "ok"
    /\ \E x, y \in triggers : x.task # y.task /\ x.task = last.call.task.id

----------------------------------------------------------------------------
(* Claims about the thunks and the scheduler together *)

\* No repository write and no scheduler call is in flight.
Settled == thunks = EmptyBag /\ calls = EmptyBag

\* C2: once every repository and delivery-service call has settled, every outstanding
\* trigger belongs to a task that is in the repository with status PENDING: none is
\* left for a COMPLETED or a deleted task.
C2_NoTriggerForDoneTask ==
    Settled => \A x \in triggers : \E d \in docs : d.id = x.task /\ d.status = "PENDING"

\* C3: after addTask and any updateTask calls, once all calls have settled, every
\* outstanding deadline trigger of the task fires at its stored deadline and every
\* outstanding reminder trigger one hour before it.
C3_NoDivergentTimers ==
    Settled =>
        \A x \in triggers, d \in docs :
            d.id = x.task =>
                /\ x.title = DEADLINE_TITLE => x.timestamp = d.deadline
                /\ x.title = REMINDER_TITLE => x.timestamp = d.deadline - ONE_HOUR_MS

C4_ReplaceById(tasks, payload) ==
    [i \in 1..Len(tasks) |->
        IF tasks[i].id = payload.id /\ \A j \in 1..(i - 1) : tasks[j].id # payload.id
        THEN payload ELSE tasks[i]]

\* C4: when the repository write of addTask, updateTask, deleteTask or toggleTaskStatus
\* succeeds, the thunk fulfils in that very step, with the payload its arguments fix,
\* and the store changes as the fulfilled reducer says, whatever state the scheduler
\* calls are in; and no step of the scheduler or of the delivery service changes the
\* store, the repository or a thunk.
C4_MutationIgnoresScheduler ==
    [][/\ last'.ev = "written" =>
              LET th == last'.thunk
                  payload == last'.payload
              IN /\ last'.outcome = "fulfilled"
                 /\ BagIn(th, thunks) /\ thunks' = thunks (-) SetToBag({th})
                 /\ store'.error = store.error
                 /\ th.type = "addTask" =>
                        /\ payload.id \in assigned' \ assigned
                        /\ payload = [th.task EXCEPT !.id = payload.id]
                        /\ store'.tasks = store.tasks
                 /\ th.type = "updateTask" =>
                        /\ payload = th.task
                        /\ store'.tasks = C4_ReplaceById(store.tasks, payload)
                 /\ th.type = "deleteTask" =>
                        /\ payload.id = th.task.id
                        /\ store'.tasks = SelectSeq(store.tasks, LAMBDA t : t.id # payload.id)
                 /\ th.type = "toggleTaskStatus" =>
                        /\ payload.id = th.task.id /\ payload.deadline = th.task.deadline
                        /\ payload.status # th.task.status
                        /\ payload.completedAt =
                              IF payload.status = "COMPLETED" THEN th.completedAt
                              ELSE NoValue
                        /\ store'.tasks = C4_ReplaceById(store.tasks, payload)
       /\ last'.ev = "scheduler" => UNCHANGED <<docs, store, thunks, assigned>>]_vars

\* toggleTaskStatus has fulfilled while an earlier schedule call of the task stands
\* rejected with a submission still in flight.
C4_Witness ==
    /\ last.ev = "written" /\ last.outcome = "fulfilled"
    /\ last.thunk.type = "toggleTaskStatus"
    /\ \E i \in 1..Len(store.tasks) : store.tasks[i] = last.payload
    /\ \E c \in BagToSet(calls) :
          c.op = "schedule" /\ c.result = "rejected" /\ InFlight(c.reqs) # {}

----------------------------------------------------------------------------
(* Claims about computeScore *)

\* The list selectSmartSortedTasks last returned, and the time it was computed at.
Ranked == memo.smartSorted.result.items

RankedAt == memo.smartSorted.at

Zero == [num |-> 0, den |-> 1]

Whole(n) == [num |-> n, den |-> 1]

\* C11: computeScore is exactly 0 for every COMPLETED task, whatever its priority
\* and deadline and whatever the time: for the tasks of the collection at the current
\* time, and in every entry of the ranked list.
C11_CompletedScoresZero ==
    /\ \A i \in 1..Len(collection.items) :
          collection.items[i].status = "COMPLETED" =>
              computeScore(collection.items[i], now) = Zero
    /\ \A i \in 1..Len(Ranked) : Ranked[i].status = "COMPLETED" => Ranked[i].score = Zero

\* A COMPLETED task of HIGH priority whose deadline has passed has been scored.
C11_Witness ==
    /\ memo.smartSorted.hasRun
    /\ \E i \in 1..Len(Ranked) :
          /\ Ranked[i].status = "COMPLETED"
          /\ Ranked[i].priority = "HIGH"
          /\ Ranked[i].deadline < RankedAt

\* C12: of two tasks that are not COMPLETED and have the same priority, the one with
\* the smaller deadline - now has the strictly larger score.
C12_StrictlyDecreasing ==
    \A i, j \in 1..Len(Ranked) :
        /\ Ranked[i].status # "COMPLETED" /\ Ranked[j].status # "COMPLETED"
        /\ Ranked[i].priority = Ranked[j].priority
        /\ Ranked[i].deadline - RankedAt < Ranked[j].deadline - RankedAt
        => Sign(Ranked[i].score, Ranked[j].score) = 1

\* The weights the priorities are said to have.
ClaimedWeight(priority) ==
    IF priority = "HIGH" THEN 100 ELSE IF priority = "MEDIUM" THEN 50 ELSE 10

C14_OverdueDominates ==
    \A i, j \in 1..Len(Ranked) :
        /\ Ranked[i].status = "PENDING" /\ Ranked[j].status = "PENDING"
        /\ Ranked[i].deadline <= RankedAt
        /\ Ranked[j].deadline > RankedAt
        => Sign(Ranked[i].score, Ranked[j].score) = 1

\* C15: a PENDING task with deadline <= now, deadline = now included, scores its
\* priority weight plus 5000, however long it has been overdue: overdue tasks of one
\* priority score the same, and none scores less than 5010.
C15_OverdueScoreIsFixed ==
    \A i \in 1..Len(Ranked) :
        Ranked[i].status = "PENDING" /\ Ranked[i].deadline <= RankedAt =>
            /\ Ranked[i].score = Whole(ClaimedWeight(Ranked[i].priority) + 5000)
            /\ Sign(Ranked[i].score, Whole(5010)) >= 0
            /\ \A j \in 1..Len(Ranked) :
                  /\ Ranked[j].status = "PENDING" /\ Ranked[j].deadline <= RankedAt
                  /\ Ranked[j].priority = Ranked[i].priority
                  => Ranked[j].score = Ranked[i].score

\* Two tasks of one priority were scored, one at its deadline and one a second after.
C15_Witness ==
    /\ memo.smartSorted.hasRun
    /\ \E i, j \in 1..Len(Ranked) :
          /\ Ranked[i].status = "PENDING" /\ Ranked[j].status = "PENDING"
          /\ Ranked[i].priority = Ranked[j].priority
          /\ Ranked[i].deadline = RankedAt
          /\ Ranked[j].deadline < RankedAt

----------------------------------------------------------------------------
(* Claims about the selectors *)

\* The collection the ranked list was computed from.
RankedFrom == memo.smartSorted.input.items

Bijections(n) == {p \in [1..n -> 1..n] : \A i, j \in 1..n : p[i] = p[j] => i = j}

\* C16: the list selectSmartSortedTasks returns is a permutation of the tasks it was
\* given, each with its computeScore at one common time, in non-increasing order of
\* score, and tasks of equal score are in the order they had in the collection.
C16_StableDescendingSort ==
    memo.smartSorted.hasRun =>
        /\ Len(Ranked) = Len(RankedFrom)
        /\ \E p \in Bijections(Len(Ranked)) :
              /\ \A i \in 1..Len(Ranked) :
                    Ranked[i] = ScoredTask(RankedFrom[p[i]],
                                           computeScore(RankedFrom[p[i]], RankedAt))
              /\ \A i, j \in 1..Len(Ranked) :
                    i < j => /\ Sign(Ranked[i].score, Ranked[j].score) >= 0
                             /\ Ranked[i].score = Ranked[j].score => p[i] < p[j]

\* Two different PENDING tasks of equal score were ranked.
C16_Witness ==
    /\ memo.smartSorted.hasRun
    /\ Len(Ranked) = 2
    /\ Ranked[1].id # Ranked[2].id
    /\ Ranked[1].status = "PENDING"
    /\ Ranked[1].score = Ranked[2].score

\* C17: the ranked list is de-duplicated: whatever the raw collection, one with the
\* same task id in two places included, no two entries of the list have the same id.
C17_OneEntryPerId ==
    memo.smartSorted.hasRun =>
        \A i, j \in 1..Len(Ranked) : Ranked[i].id = Ranked[j].id => i = j

WithoutScores(list) == [i \in 1..Len(list) |-> Unscored(list[i])]

\* C18: in the ranked list no COMPLETED task stands before a PENDING task: every
\* PENDING task has a score above 0 and every COMPLETED task the score 0, and the
\* COMPLETED tasks are at the end in the order they had in the collection.
C18_CompletedAtTheBottom ==
    memo.smartSorted.hasRun =>
        /\ \A i, j \in 1..Len(Ranked) :
              i < j => ~(Ranked[i].status = "COMPLETED" /\ Ranked[j].status = "PENDING")
        /\ \A i \in 1..Len(Ranked) :
              /\ Ranked[i].status = "PENDING" => Sign(Ranked[i].score, Zero) = 1
              /\ Ranked[i].status = "COMPLETED" => Ranked[i].score = Zero
        /\ WithoutScores(completedOnly(Ranked)) = completedOnly(RankedFrom)

\* A collection with a COMPLETED task in front of a PENDING one was ranked.
C18_Witness ==
    /\ memo.smartSorted.hasRun
    /\ Len(RankedFrom) = 2
    /\ RankedFrom[1].status = "COMPLETED"
    /\ RankedFrom[2].status = "PENDING"
    /\ Ranked[1].id = RankedFrom[2].id

PositionsOf(list, status) == {i \in 1..Len(list) : list[i].status = status}

\* sub holds the entries of list with the given status, all of them and in their order.
IsSublistOfStatus(sub, list, status) ==
    LET S == PositionsOf(list, status)
    IN /\ Len(sub) = Cardinality(S)
       /\ \A i \in S : sub[Cardinality({j \in S : j < i}) + 1] = list[i]

\* C19: selectPendingTasks returns exactly the PENDING entries of the ranked list and
\* selectCompletedTasks exactly the COMPLETED ones, each in the order of the ranked
\* list, and every entry of the ranked list is in exactly one of the two.
C19_PendingAndCompletedPartition ==
    /\ memo.pending.hasRun =>
          /\ memo.pending.input = memo.smartSorted.result
          /\ IsSublistOfStatus(memo.pending.result.items, Ranked, "PENDING")
    /\ memo.completed.hasRun =>
          /\ memo.completed.input = memo.smartSorted.result
          /\ IsSublistOfStatus(memo.completed.result.items, Ranked, "COMPLETED")
    /\ memo.pending.hasRun /\ memo.completed.hasRun =>
          /\ Len(memo.pending.result.items) + Len(memo.completed.result.items) = Len(Ranked)
          /\ \A i \in 1..Len(Ranked) :
                Ranked[i].status = "PENDING" \/ Ranked[i].status = "COMPLETED"

\* Both selectors have run on a ranked list with a PENDING and a COMPLETED entry.
C19_Witness ==
    /\ memo.pending.hasRun
    /\ memo.completed.hasRun
    /\ Len(memo.pending.result.items) = 1
    /\ Len(memo.completed.result.items) = 1

\* The members of a list, each with the number of its occurrences.
Members(list) ==
    [x \in {list[i] : i \in 1..Len(list)} |-> Cardinality({i \in 1..Len(list) : list[i] = x})]

\* C20: a call of selectSmartSortedTasks with the collection it was last called with
\* (the same array) returns the cached list and neither scores nor sorts again, even
\* when time has passed; a call with another array computes the list anew, at the
\* current time; either way the list returned has the members of the collection.
C20_MemoizedOnIdentity ==
    [][last'.ev = "selectSmartSortedTasks" =>
          /\ IF memo.smartSorted.hasRun /\ memo.smartSorted.input.ref = collection.ref
              THEN memo'.smartSorted = memo.smartSorted
              ELSE /\ memo'.smartSorted.recomputations = memo.smartSorted.recomputations + 1
                   /\ memo'.smartSorted.result.ref # memo.smartSorted.result.ref
                   /\ memo'.smartSorted.at = now
          /\ Members(WithoutScores(memo'.smartSorted.result.items)) = Members(collection.items)
      ]_vars

\* The list was computed a second time for a new array, and a later call, made after
\* time had passed, returned it from the cache.
C20_Witness ==
    /\ last.ev = "selectSmartSortedTasks"
    /\ memo.smartSorted.recomputations = 2
    /\ memo.smartSorted.input.ref = collection.ref
    /\ memo.smartSorted.at < now

----------------------------------------------------------------------------
(* Claims about computeConsistencyScore and computeTimeHealth *)

\* The score selectConsistencyScore last returned, the tasks it was computed from and
\* the time it was computed at.
Consistency == memo.consistency.result.items

ConsistencyFrom == memo.consistency.input.items

ConsistencyAt == memo.consistency.at

OnTimeCount == Len(SelectSeq(ConsistencyFrom, IsOnTime))

LateCount == Len(SelectSeq(ConsistencyFrom, IsLate))

OverdueCount == Len(SelectSeq(ConsistencyFrom, LAMBDA t : IsOverdue(t, ConsistencyAt)))

\* r is the integer nearest to 100 * n / d, the upper one of two equally near.
IsRoundedPercentage(r, n, d) ==
    /\ r \in 0..100
    /\ 2 * r * d <= 200 * n + d
    /\ 2 * r * d > 200 * n - d

\* C21: computeConsistencyScore returns round(onTime / (onTime + late + overdue) * 100),
\* an integer in 0 .. 100, and 0 when there is no on-time, late or overdue task; three
\* on-time and one late task give 75.
C21_ConsistencyIsRoundedShare ==
    memo.consistency.hasRun =>
        LET total == OnTimeCount + LateCount + OverdueCount IN
        /\ Consistency \in 0..100
        /\ total = 0 => Consistency = 0
        /\ total > 0 => IsRoundedPercentage(Consistency, OnTimeCount, total)
        /\ OnTimeCount = 3 /\ LateCount = 1 /\ OverdueCount = 0 => Consistency = 75

\* The score of three on-time tasks and one late task has been computed.
C21_Witness ==
    /\ memo.consistency.hasRun
    /\ OnTimeCount = 3
    /\ LateCount = 1
    /\ OverdueCount = 0
    /\ Consistency = 75

\* The classes as they are described.
HasCompletedAt(t) == t.completedAt # NoValue /\ t.completedAt # Null

ClaimedOnTime(t) ==
    t.status = "COMPLETED" /\ HasCompletedAt(t) /\ t.completedAt <= t.deadline

ClaimedLate(t) == t.status = "COMPLETED" /\ ~ClaimedOnTime(t)

ClaimedOverdue(t, at) == t.status = "PENDING" /\ t.deadline < at

ClaimedUncounted(t, at) == t.status = "PENDING" /\ t.deadline >= at

\* C22: every task is counted in at most one class: a COMPLETED task as on-time when it
\* has a completedAt that is not after its deadline and as late otherwise, a PENDING
\* task as overdue when its deadline is strictly before now; a PENDING task with
\* deadline >= now is in no class, and the score is the same without it.
C22_OneClassPerTask ==
    memo.consistency.hasRun =>
        LET tasks == ConsistencyFrom
            at == ConsistencyAt
            onTime == Len(SelectSeq(tasks, ClaimedOnTime))
            late == Len(SelectSeq(tasks, ClaimedLate))
            overdue == Len(SelectSeq(tasks, LAMBDA t : ClaimedOverdue(t, at)))
            counted == SelectSeq(tasks, LAMBDA t : ~ClaimedUncounted(t, at))
        IN /\ \A i \in 1..Len(tasks) :
                 Cardinality({c \in {"onTime", "late", "overdue"} :
                     \/ c = "onTime" /\ ClaimedOnTime(tasks[i])
                     \/ c = "late" /\ ClaimedLate(tasks[i])
                     \/ c = "overdue" /\ ClaimedOverdue(tasks[i], at)})
                   = IF ClaimedUncounted(tasks[i], at) THEN 0 ELSE 1
           /\ onTime + late + overdue = Len(counted)
           /\ IF Len(counted) = 0 THEN Consistency = 0
              ELSE IsRoundedPercentage(Consistency, onTime, Len(counted))
           /\ computeConsistencyScore(counted, at) = Consistency

\* A score was computed from an on-time task, a COMPLETED task without completedAt and
\* a PENDING task whose deadline is now.
C22_Witness ==
    /\ memo.consistency.hasRun
    /\ Len(ConsistencyFrom) = 3
    /\ \E i, j, k \in 1..3 :
          /\ ClaimedOnTime(ConsistencyFrom[i])
          /\ ConsistencyFrom[j].status = "COMPLETED"
          /\ ConsistencyFrom[j].completedAt = NoValue
          /\ ConsistencyFrom[k].status = "PENDING"
          /\ ConsistencyFrom[k].deadline = ConsistencyAt
    /\ Consistency = 50

\* The task the detail screen shows and the time health it displays.
ShownTask == collection.items[detail.index]

TimeHealth == detail.timeHealth

C24_PendingHealthIsClampedShare ==
    detail.shown /\ ShownTask.status = "PENDING" =>
        LET d == ShownTask.deadline
            c == ShownTask.createdAt
            at == detail.at
        IN /\ TimeHealth \in 0..100
           /\ d <= c => TimeHealth = 0
           /\ d > c /\ at >= d => TimeHealth = 0
           /\ d > c /\ at <= c => TimeHealth = 100
           /\ d > c /\ at > c /\ at < d => IsRoundedPercentage(TimeHealth, d - at, d - c)
           /\ c = 0 /\ d = 1000 /\ at = 500 => TimeHealth = 50

\* The halfway task is shown with the health 50.
C24_Witness ==
    /\ detail.shown
    /\ ShownTask.status = "PENDING"
    /\ ShownTask.createdAt = 0
    /\ ShownTask.deadline = 1000
    /\ detail.at = 500
    /\ TimeHealth = 50

----------------------------------------------------------------------------
(* Claims about the thunks, the repository and the store *)

\* C25: in every state of the store a task has a completedAt value only while its
\* status is COMPLETED, whatever toggleTaskStatus, updateTask and toggleSubtask
\* results have been applied.
C25_CompletedAtOnlyWhileCompleted ==
    \A i \in 1..Len(store.tasks) :
        HasCompletedAt(store.tasks[i]) => store.tasks[i].status = "COMPLETED"

\* The requests of call c, all in flight, are the two cancellations of the task.
BothCancellationsIssued(c, taskId) ==
    /\ c.op = "cancel"
    /\ Len(c.reqs) = 2
    /\ \A k \in 1..2 : c.reqs[k].api = "cancel" /\ c.reqs[k].st = "inflight"
    /\ {c.reqs[k].id : k \in 1..2} = {taskId \o "-reminder", taskId \o "-deadline"}

\* Call c is a schedule call for the task that has issued no request yet.
NoCreationIssued(c, task) == c.op = "schedule" /\ c.task = task /\ c.reqs = <<>>

\* C26: the step in which the repository write of updateTask succeeds issues both
\* cancellation requests of the task and starts the schedule call, which has issued no
\* creation request yet; no other step of a thunk issues a call or a request.
C26_CancelIssuedBeforeCreate ==
    [][/\ last'.ev = "written" /\ last'.thunk.type = "updateTask" =>
            LET task == last'.thunk.task IN
            /\ \E d \in docs' :
                  d.id = task.id /\ d.deadline = task.deadline /\ d.status = task.status
            /\ \E c, s \in BagToSet(calls') :
                  /\ BothCancellationsIssued(c, task.id)
                  /\ NoCreationIssued(s, task)
                  /\ calls' = (calls (+) SetToBag({c})) (+) SetToBag({s})
       /\ last'.ev \in {"dispatch", "writeFailed", "snapshot"} => calls' = calls]_vars

\* updateTask has just been written: both cancellations are in flight and the schedule
\* call awaits requestPermission.
C26_Witness ==
    /\ last.ev = "written" /\ last.thunk.type = "updateTask"
    /\ \E c, s \in BagToSet(calls) :
          /\ BothCancellationsIssued(c, last.thunk.task.id)
          /\ NoCreationIssued(s, last.thunk.task)
          /\ s.pc = "permission"

\* Call c is a schedule call for the task, as it is when it has just been made.
IsScheduleOf(c, task) ==
    c.op = "schedule" /\ c.task = task /\ c.pc = "permission" /\ c.reqs = <<>>

\* Call c is a cancel call for the task id; it asks for no trigger to be created.
IsCancelOf(c, taskId) ==
    /\ c.op = "cancel" /\ c.task.id = taskId
    /\ \A k \in 1..Len(c.reqs) : c.reqs[k].api = "cancel" /\ c.reqs[k].task = taskId

\* The calls that were made in the step.
CallsMade == calls' (-) calls

\* C27: the step in which the write of a thunk succeeds makes exactly the scheduler
\* calls of the transition table: addTask schedule only, for the task with the id the
\* repository assigned; updateTask cancel and schedule; toggleTaskStatus to COMPLETED
\* cancel only, creating no trigger; toggleTaskStatus back to PENDING schedule only,
\* for the PENDING task with the deadline of the task the handler was given;
\* deleteTask cancel only; toggleSubtask none.
C27_CallsOfTheTransitionTable ==
    [][last'.ev = "written" =>
          LET th == last'.thunk
              task == th.task
              id == last'.payload.id
              made == BagToSet(CallsMade)
              n == BagCardinality(CallsMade)
          IN /\ calls' = calls (+) CallsMade
             /\ th.type = "addTask" =>
                   /\ id \in assigned' \ assigned
                   /\ n = 1
                   /\ \A c \in made : IsScheduleOf(c, [task EXCEPT !.id = id])
             /\ th.type = "updateTask" =>
                   /\ n = 2
                   /\ \E c, s \in made : IsCancelOf(c, task.id) /\ IsScheduleOf(s, task)
             /\ th.type = "toggleTaskStatus" /\ task.status = "PENDING" =>
                   /\ n = 1
                   /\ \A c \in made : IsCancelOf(c, task.id)
                   /\ triggers' = triggers
             /\ th.type = "toggleTaskStatus" /\ task.status = "COMPLETED" =>
                   /\ n = 1
                   /\ \A c \in made :
                         /\ c.task.id = task.id /\ c.task.deadline = task.deadline
                         /\ c.task.status = "PENDING"
                         /\ IsScheduleOf(c, c.task)
             /\ th.type = "deleteTask" =>
                   n = 1 /\ \A c \in made : IsCancelOf(c, task.id)
             /\ th.type = "toggleSubtask" => n = 0]_vars

\* A completed task was toggled back to PENDING: the schedule call for its deadline
\* has just been made.
C27_Witness ==
    /\ last.ev = "written" /\ last.thunk.type = "toggleTaskStatus"
    /\ last.thunk.task.status = "COMPLETED"
    /\ \E c \in BagToSet(calls) :
          /\ IsScheduleOf(c, c.task)
          /\ c.task.id = last.thunk.task.id
          /\ c.task.deadline = last.thunk.task.deadline
          /\ c.task.status = "PENDING"

\* The thunk whose write failed in the step.
RejectedThunks == {th \in BagToSet(thunks) : thunks' = thunks (-) SetToBag({th})}

\* No request reaches the scheduler or the delivery service, nothing is written, and
\* the task list stays as it is.
NothingButTheStoreFlags ==
    /\ calls' = calls
    /\ triggers' = triggers
    /\ docs' = docs
    /\ store'.tasks = store.tasks

\* C28 as it is stated: when the repository write of a thunk fails, the thunk rejects
\* with an error message, no schedule or cancel request is issued, and of the store
\* only the error field is set.
C28_OnlyTheErrorFieldIsSet ==
    [][last'.ev = "writeFailed" =>
          /\ last'.outcome = "rejected"
          /\ RejectedThunks # {}
          /\ NothingButTheStoreFlags
          /\ store' = [store EXCEPT !.error = FIRESTORE_ERROR]]_vars

\* C28, amended: when the repository write of a thunk fails, the thunk rejects with an
\* error message, no schedule or cancel request is issued, the task list is unchanged
\* and the error field is set; the rejection of addTask also sets loading to false.
C28_RejectionLeavesTheTasks ==
    [][last'.ev = "writeFailed" =>
          /\ last'.outcome = "rejected"
          /\ RejectedThunks # {}
          /\ NothingButTheStoreFlags
          /\ \A th \in RejectedThunks :
                store' = [store EXCEPT
                             !.error = FIRESTORE_ERROR,
                             !.loading = IF th.type = "addTask" THEN FALSE ELSE @]]_vars

\* A write has failed while the store holds a task and calls of earlier thunks are in
\* progress.
C28_Witness ==
    /\ last.ev = "writeFailed" /\ last.outcome = "rejected"
    /\ store.error = FIRESTORE_ERROR
    /\ Len(store.tasks) > 0
    /\ calls # EmptyBag

----------------------------------------------------------------------------
(* Claims about the two timers of a schedule call *)

\* The requests of reqs that ask for the trigger of that id.
SubmissionsOf(reqs, id) == {k \in 1..Len(reqs) : reqs[k].api = "create" /\ reqs[k].id = id}

\* C29: the step of a schedule call that follows the grant submits a request for each
\* timer whose fire time is still in the future, whatever the other timer is, and
\* awaits none before both are submitted; a request that fails leaves the other
\* request of the call as it was, submitted, and changes no trigger.
C29_TimersAreIndependent ==
    [][/\ last'.ev = "permission" /\ last'.settings.present
            /\ last'.settings.authorizationStatus >= 1 =>
              LET task == last'.call.task
                  reqs == last'.call.reqs
                  reminderInFuture == task.deadline - ONE_HOUR_MS > last'.at
                  deadlineInFuture == task.deadline > last'.at
              IN /\ Cardinality(SubmissionsOf(reqs, task.id \o "-reminder"))
                       = IF reminderInFuture THEN 1 ELSE 0
                 /\ Cardinality(SubmissionsOf(reqs, task.id \o "-deadline"))
                       = IF deadlineInFuture THEN 1 ELSE 0
                 /\ \A k \in 1..Len(reqs) : reqs[k].st = "inflight"
                 /\ reminderInFuture /\ deadlineInFuture => Len(reqs) = 2
       /\ last'.ev = "request" /\ last'.call.op = "schedule"
            /\ last'.call.reqs[last'.req].st = "failed" =>
              /\ triggers' = triggers
              /\ \E c \in BagToSet(calls) :
                    /\ c.op = "schedule" /\ c.task = last'.call.task
                    /\ Len(c.reqs) = Len(last'.call.reqs)
                    /\ c.reqs[last'.req].st = "inflight"
                    /\ \A k \in 1..Len(c.reqs) :
                          k # last'.req => last'.call.reqs[k] = c.reqs[k]]_vars

\* The reminder request of a call has failed and its deadline request has then been
\* answered: the deadline trigger is outstanding.
C29_Witness ==
    /\ last.ev = "request" /\ last.call.op = "schedule"
    /\ Len(last.call.reqs) = 2
    /\ last.call.reqs[1].title = REMINDER_TITLE /\ last.call.reqs[1].st = "failed"
    /\ last.call.reqs[2].title = DEADLINE_TITLE /\ last.call.reqs[2].st = "ok"
    /\ last.req = 2
    /\ \E x \in triggers : x.id = last.call.reqs[2].id

----------------------------------------------------------------------------
(* Claims about the projector and the clock *)

\* The cache of a selector is as it was.
Kept(cache) == memo'[cache] = memo[cache]

\* The selector has run its result function on the collection, at the current time.
Recomputed(cache) ==
    /\ memo'[cache].recomputations = memo[cache].recomputations + 1
    /\ memo'[cache].input = collection
    /\ memo'[cache].at = now

\* The selector was last given the array the collection is now.
SameReference(cache) == memo[cache].hasRun /\ memo[cache].input.ref = collection.ref

\* C30: a call of selectSmartSortedTasks or selectConsistencyScore made while the
\* collection is the array of the last recomputation returns what was computed then,
\* however far time has advanced; a call with another array recomputes, reading the
\* clock once: every score of the list, and the overdue test of every task, use that
\* one value. The passing of time alone changes neither result.
C30_StaleUntilTheCollectionChanges ==
    [][/\ last'.ev = "selectSmartSortedTasks" =>
            /\ Kept("consistency")
            /\ IF SameReference("smartSorted") THEN Kept("smartSorted")
               ELSE /\ Recomputed("smartSorted")
                    /\ \A i \in 1..Len(memo'.smartSorted.result.items) :
                          LET x == memo'.smartSorted.result.items[i] IN
                          \E j \in 1..Len(collection.items) :
                              /\ collection.items[j].id = x.id
                              /\ x.score = computeScore(collection.items[j], now)
       /\ last'.ev = "selectConsistencyScore" =>
            /\ Kept("smartSorted")
            /\ IF SameReference("consistency") THEN Kept("consistency")
               ELSE /\ Recomputed("consistency")
                    /\ memo'.consistency.result.items
                          = computeConsistencyScore(collection.items, now)
       /\ last'.ev \in {"tick", "tasksAssigned"} => memo' = memo]_vars

\* Both results are those of an hour ago, returned again after the deadline of a
\* pending task has passed: computed now, the order and the score would be different.
C30_Witness ==
    /\ last.ev = "selectConsistencyScore"
    /\ memo.smartSorted.hasRun /\ memo.consistency.hasRun
    /\ memo.smartSorted.input.ref = collection.ref
    /\ memo.consistency.input.ref = collection.ref
    /\ memo.smartSorted.at < now /\ memo.consistency.at < now
    /\ \E i \in 1..Len(collection.items) :
          /\ collection.items[i].status = "PENDING"
          /\ collection.items[i].deadline >= memo.consistency.at
          /\ collection.items[i].deadline < now
    /\ memo.smartSorted.result.items # smartSorted(collection.items, now)
    /\ memo.consistency.result.items # computeConsistencyScore(collection.items, now)

====
